---- MODULE Spec2Model ----
(***************************************************************************)
(* The WhatsApp bridge of OxiBot: the WhatsAppClient session wrapper       *)
(* (bridge/src/whatsapp.ts) and the BridgeServer relay                     *)
(* (bridge/src/server.ts), as one state machine.                           *)
(*                                                                         *)
(* The Baileys socket is an external collaborator: it is modelled by the   *)
(* connection.update events it may deliver to the handler registered in    *)
(* connect(), and by the outcome of its sendMessage.                       *)
(***************************************************************************)
EXTENDS Integers, Sequences, FiniteSets, TLC

\* ------------------------------------------------------------------ bounds
MaxSockets == 2     \* makeWASocket calls in one run of the client
MaxUpdates == 3     \* connection.update events in one run of the client
MaxInflight == 2    \* connect() calls suspended at their awaits at once
BridgeSockets == 1  \* makeWASocket calls in one run of the bridge
BridgeUpdates == 2  \* events raised in one run of the bridge
BridgeCmds == 1     \* controller frames received in one run of the bridge
BridgeConns == 2    \* controller connections in one run of the bridge
MaxCmds == 2        \* controller frames received in one run of the relay
NConns == 3         \* controller connections in one run of the fan-out

Conns == 1..NConns
Targets == {"a@s.whatsapp.net", "b@g.us"}
Tokens == {"qr-1"}
Challenges == {"qr-1", "qr-2"}

\* The statusCode read from lastDisconnect: DisconnectReason.loggedOut, a
\* reason other than the logout, and the undefined of a close that carries no
\* error object.
loggedOut == "loggedOut"
undefinedCode == "undefined"
StatusCodes == {loggedOut, "connectionClosed"}

VARIABLES
    \* WhatsAppClient
    client,         \* the WhatsAppClient object has been constructed
    sock,           \* this.sock: 0 is null, else the index of a socket
    reconnecting,   \* this.reconnecting
    timers,         \* pending setTimeout callbacks of the close branch
    inflight,       \* connect() calls suspended before makeWASocket
    authState,      \* the credentials kept in authDir
    \* Baileys
    socks,          \* the sockets made so far, each with its status
    sending,        \* sock.sendMessage calls not yet settled
    \* BridgeServer
    wss, wa,        \* this.wss / this.wa are non-null
    listener,       \* the listening socket of wss
    exitCode,       \* process.exit was called with it
    clients,        \* this.clients
    ready,          \* readyState of each controller connection
    inbox,          \* frames written to each controller connection
    \* history
    raised,         \* events handed to onStatus / onQR, in order
    step,           \* the handler that ran last, with its input
    nCmds,          \* controller frames received so far
    delegated,      \* calls of the upstream sock.sendMessage so far
    deliberate,     \* disconnect() ran and connect() was not called since
    window,         \* non-logout closes handled since a timer last fired
    served          \* the value of window when a timer last fired

vars == <<client, listener, exitCode, authState, sock, reconnecting, timers, inflight, socks, sending,
          wss, wa, clients, ready, inbox, raised, step, nCmds, delegated,
          deliberate, window, served>>

waVars == <<sock, reconnecting, timers, inflight, socks>>
srvVars == <<wss, wa, clients, ready>>
cmdVars == <<sending, nCmds, delegated>>
histVars == <<deliberate, window, served>>

\* ---------------------------------------------------------------- helpers
\* The record of a step: the handler, and the input it ran on.
Step(op, conn, type, arg) == [op |-> op, conn |-> conn, type |-> type, arg |-> arg]
Did(op) == Step(op, 0, "", "")
DidUpdate(u) ==
    Step("update", u.sock, IF u.qr # "" THEN "qr" ELSE u.connection,
         IF u.qr # "" THEN u.qr ELSE u.statusCode)
DidMessage(cmd) == Step("message", cmd.conn, cmd.type, cmd.to)

Frame(t, v) == [type |-> t, val |-> v]

RemoveAt(s, i) == SubSeq(s, 1, i - 1) \o SubSeq(s, i + 1, Len(s))

\* The state of the session as the protocol names it.
CurStatus == IF sock = 0 THEN "closed" ELSE socks[sock].status

SessionState ==
    CASE CurStatus = "open" -> "Connected"
      [] CurStatus = "qr" -> "AwaitingScan"
      [] CurStatus = "connecting" -> "Connecting"
      [] OTHER -> IF inflight # <<>> THEN "Connecting" ELSE "Disconnected"

\* Sockets made and not ended.
Live == {s \in 1..Len(socks) : socks[s].status # "closed"}

\* (the reply that goes to every member of the live set)
wsSend_toAll(inb, c, f) ==
    [d \in Conns |-> IF d \in clients /\ ready[d] = "open" THEN Append(inb[d], f) ELSE inb[d]]

\* (the send that still delivers on a connection that is no longer OPEN)
wsSend_afterClose(inb, c, f) ==
    [inb EXCEPT ![c] = Append(@, f)]

\* ws.send(data) on one connection: the frame arrives when it is OPEN.
wsSend(inb, c, f) ==
    [inb EXCEPT ![c] = IF ready[c] = "open" THEN Append(@, f) ELSE @]

\* (the loop that writes to the first member only)
broadcast_firstOnly(cl, inb, f) ==
    [c \in Conns |->
        IF c \in cl /\ ready[c] = "open" /\ (\A d \in cl : c <= d)
        THEN Append(inb[c], f) ELSE inb[c]]

\* (the loop without its readyState test)
broadcast_noReadyState(cl, inb, f) ==
    [c \in Conns |-> IF c \in cl THEN Append(inb[c], f) ELSE inb[c]]

\* (the loop that puts the frame ahead of the frames written before)
broadcast_prepends(cl, inb, f) ==
    [c \in Conns |->
        IF c \in cl /\ ready[c] = "open" THEN <<f>> \o inb[c] ELSE inb[c]]

\* BridgeServer.broadcast, over the live set cl
broadcast(cl, inb, f) ==
    [c \in Conns |->
        IF c \in cl /\ ready[c] = "open" THEN Append(inb[c], f) ELSE inb[c]]

\* ------------------------------------------------------------ WhatsAppClient
\* (the comparison made against another reason than the logout)
shouldReconnect_otherReason(statusCode) == statusCode # "connectionClosed"

\* const shouldReconnect = statusCode !== DisconnectReason.loggedOut
shouldReconnect(statusCode) == statusCode # loggedOut

\* (the close branch that retries only for an audience)
schedules_needsController(statusCode) ==
    shouldReconnect(statusCode) /\ ~reconnecting /\ clients # {}

\* (the reentrancy guard tested the wrong way round)
schedules_inverted(statusCode) == shouldReconnect(statusCode) /\ reconnecting

\* (the close branch without its reentrancy guard)
schedules_unguarded(statusCode) == shouldReconnect(statusCode)

\* if (shouldReconnect && !this.reconnecting)
schedules(statusCode) == shouldReconnect(statusCode) /\ ~reconnecting

\* The events the close / open branches pass to onStatus.
statusOf(connection) ==
    CASE connection = "close" -> <<Frame("status", "disconnected")>>
      [] connection = "open" -> <<Frame("status", "connected")>>
      [] OTHER -> <<>>

\* (the challenge announced with a status of its own)
qrOf_withStatus(qr) ==
    IF qr # "" THEN <<Frame("status", "awaiting scan"), Frame("qr", qr)>> ELSE <<>>

\* if (qr) this.options.onQR(qr)
qrOf(qr) == IF qr # "" THEN <<Frame("qr", qr)>> ELSE <<>>

RECURSIVE broadcastAll(_, _, _)
broadcastAll(cl, inb, fs) ==
    IF fs = <<>> THEN inb
    ELSE broadcastAll(cl, broadcast(cl, inb, Head(fs)), Tail(fs))

\* (the handler that schedules the timer and forgets to set the guard)
onConnectionUpdate_guardNotSet(u, cl) ==
    LET evs == qrOf(u.qr) \o statusOf(u.connection) IN
    /\ raised' = raised \o evs
    /\ inbox' = broadcastAll(cl, inbox, evs)
    /\ IF u.connection = "close" /\ schedules(u.statusCode)
       THEN timers' = timers + 1
       ELSE UNCHANGED timers
    /\ UNCHANGED reconnecting
    /\ window' = IF u.connection = "close" /\ shouldReconnect(u.statusCode)
                 THEN window + 1 ELSE window

\* The connection.update handler registered by connect().
onConnectionUpdate(u, cl) ==
    LET evs == qrOf(u.qr) \o statusOf(u.connection) IN
    /\ raised' = raised \o evs
    /\ inbox' = broadcastAll(cl, inbox, evs)
    /\ IF u.connection = "close" /\ schedules(u.statusCode)
       THEN /\ reconnecting' = TRUE
            /\ timers' = timers + 1
       ELSE UNCHANGED <<reconnecting, timers>>
    /\ window' = IF u.connection = "close" /\ shouldReconnect(u.statusCode)
                 THEN window + 1 ELSE window

\* What a socket may report next, given what it reported before, with its
\* auth challenges drawn from tokens.
UpdatesOver(s, tokens) ==
    LET st == socks[s].status IN
    {[sock |-> s, qr |-> q, connection |-> "", statusCode |-> undefinedCode] :
        q \in IF st \in {"connecting", "qr"} THEN tokens ELSE {}}
    \cup {[sock |-> s, qr |-> "", connection |-> "open", statusCode |-> undefinedCode] :
        x \in IF st \in {"connecting", "qr"} THEN {1} ELSE {}}
    \cup {[sock |-> s, qr |-> "", connection |-> "close", statusCode |-> c] :
        c \in StatusCodes}

Updates(s) == UpdatesOver(s, Tokens)

statusAfter(st, u) ==
    CASE u.connection = "close" -> "closed"
      [] u.connection = "open" -> "open"
      [] u.qr # "" -> "qr"
      [] OTHER -> st

\* lastDisconnect of the socket: the status code of its last close
codeAfter(code, u) == IF u.connection = "close" THEN u.statusCode ELSE code

\* connect(), up to its first await
connectCall(origin) ==
    inflight' = Append(inflight, [origin |-> origin, state |-> SessionState])

connect ==
    /\ step' = Did("connect")
    /\ client
    /\ Len(inflight) < MaxInflight
    /\ connectCall("api")
    /\ deliberate' = FALSE
    /\ UNCHANGED <<client, listener, exitCode, authState, sock, reconnecting, timers, socks, inbox, raised>>
    /\ UNCHANGED <<srvVars, cmdVars, window, served>>

\* connect() resumes: makeWASocket, this.sock = ..., handlers registered
makeWASocket(i) ==
    /\ step' = Did("makeWASocket")
    /\ i \in 1..Len(inflight)
    /\ Len(socks) < MaxSockets
    /\ inflight' = RemoveAt(inflight, i)
    /\ socks' = Append(socks, [status |-> "connecting", code |-> undefinedCode,
                               creds |-> authState,
                               origin |-> inflight[i].origin,
                               calledIn |-> inflight[i].state])
    /\ sock' = Len(socks) + 1
    /\ UNCHANGED <<client, listener, exitCode, authState, reconnecting, timers, inbox, raised>>
    /\ UNCHANGED <<srvVars, cmdVars, histVars>>

\* connect() rejects at one of its awaits, before a socket is made
connectFails(i) ==
    /\ i \in 1..Len(inflight)
    /\ step' = Step("connectFails", 0, inflight[i].origin, "")
    /\ inflight' = RemoveAt(inflight, i)
    /\ UNCHANGED <<client, listener, exitCode, authState, sock, reconnecting, timers, socks, inbox, raised>>
    /\ UNCHANGED <<srvVars, cmdVars, histVars>>

\* A socket delivers a connection.update event.
connectionUpdate(s, u) ==
    /\ step' = DidUpdate(u)
    /\ s \in 1..Len(socks)
    /\ u \in UpdatesOver(s, Challenges)
    /\ Len(raised) < MaxUpdates
    /\ socks' = [socks EXCEPT ![s].status = statusAfter(@, u),
                              ![s].code = codeAfter(@, u)]
    /\ onConnectionUpdate(u, clients)
    /\ UNCHANGED <<client, listener, exitCode, authState, sock, inflight, deliberate, served>>
    /\ UNCHANGED <<srvVars, cmdVars>>

\* The creds.update handler registered by connect(): saveCreds writes the
\* credentials of the paired device to authDir.
credsUpdate(s) ==
    /\ step' = Step("credsUpdate", s, "", "")
    /\ s \in 1..Len(socks)
    /\ socks[s].status \in {"qr", "open"}
    /\ authState' = "paired"
    /\ UNCHANGED <<client, listener, exitCode, sock, reconnecting, timers, inflight, socks, inbox, raised>>
    /\ UNCHANGED <<srvVars, cmdVars, histVars>>

\* The setTimeout callback of the close branch.
\* (the callback that calls connect() and leaves the guard set)
reconnectTimer_keepsGuard ==
    /\ step' = Did("reconnectTimer")
    /\ timers > 0
    /\ timers' = timers - 1
    /\ connectCall("timer")
    /\ served' = window
    /\ window' = 0
    /\ UNCHANGED <<client, listener, exitCode, authState, sock, socks, inbox, raised, deliberate>>
    /\ UNCHANGED <<reconnecting, srvVars, cmdVars>>

\* The callback of the setTimeout of the close branch.
reconnectTimer ==
    /\ step' = Did("reconnectTimer")
    /\ timers > 0
    /\ timers' = timers - 1
    /\ reconnecting' = FALSE
    /\ connectCall("timer")
    /\ served' = window
    /\ window' = 0
    /\ UNCHANGED <<client, listener, exitCode, authState, sock, socks, inbox, raised, deliberate>>
    /\ UNCHANGED <<srvVars, cmdVars>>

\* sock.end(undefined): the socket is over; Baileys reports the end to the
\* connection.update handler with no error object, unless it was over already.
endSocket(emit, cl) ==
    /\ socks' = [socks EXCEPT ![sock].status = "closed",
                              ![sock].code = IF emit THEN undefinedCode ELSE @]
    /\ IF emit
       THEN /\ Len(raised) < MaxUpdates
            /\ onConnectionUpdate([sock |-> sock, qr |-> "", connection |-> "close",
                                   statusCode |-> undefinedCode], cl)
       ELSE UNCHANGED <<raised, inbox, reconnecting, timers, window>>

\* (the disconnect that ends the socket and keeps the reference to it)
disconnectBody_keepsSock(cl) ==
    IF sock # 0
    THEN /\ \E emit \in BOOLEAN :
                /\ (socks[sock].status = "closed" => ~emit)
                /\ endSocket(emit, cl)
         /\ UNCHANGED sock
    ELSE UNCHANGED <<sock, socks, raised, inbox, reconnecting, timers, window>>

\* WhatsAppClient.disconnect
disconnectBody(cl) ==
    IF sock # 0
    THEN /\ \E emit \in BOOLEAN :
                /\ (socks[sock].status = "closed" => ~emit)
                /\ endSocket(emit, cl)
         /\ sock' = 0
    ELSE UNCHANGED <<sock, socks, raised, inbox, reconnecting, timers, window>>

disconnect ==
    /\ step' = Did("disconnect")
    /\ client
    /\ disconnectBody(clients)
    /\ deliberate' = TRUE
    /\ UNCHANGED <<client, listener, exitCode, authState, inflight, served>>
    /\ UNCHANGED <<srvVars, cmdVars>>

\* ---------------------------------------------------------- incoming messages
\* A Baileys message: its key, its message object (present is false for a
\* missing one, "" stands for an absent text field) and its timestamp.
Envelope(fromMe, jid, present, conversation, audio) ==
    [key |-> [fromMe |-> fromMe, remoteJid |-> jid, id |-> "id-1", remoteJidAlt |-> ""],
     message |-> [present |-> present, conversation |-> conversation,
                  extendedText |-> "", imageCaption |-> "", videoCaption |-> "",
                  documentCaption |-> "", audio |-> audio],
     messageTimestamp |-> 1700000000]

\* The messages the upstream hands to the bridge in the runs of the bridge.
TextMsg == Envelope(FALSE, "a@s.whatsapp.net", TRUE, "say \"hello\"\n", FALSE)
OwnMsg == Envelope(TRUE, "b@g.us", TRUE, "mine", FALSE)
VoiceMsg == Envelope(FALSE, "b@g.us", TRUE, "", TRUE)

Batches == {<<TextMsg>>, <<OwnMsg>>, <<TextMsg, VoiceMsg>>}

\* The envelopes of the batches the loop is checked on: two that yield an
\* event, and one for each way of being skipped.
EmptyMsg == Envelope(FALSE, "a@s.whatsapp.net", FALSE, "", FALSE)
StatusMsg == Envelope(FALSE, "status@broadcast", TRUE, "story", FALSE)
BatchEnvelopes == {TextMsg, VoiceMsg, OwnMsg, EmptyMsg, StatusMsg}
BatchesOf(n) == UNION {[1..k -> BatchEnvelopes] : k \in 1..n}

\* The envelopes the normalizer is checked on: every combination of the
\* fields it reads. A missing message object has no field.
Jids == {"a@s.whatsapp.net", "b@g.us", "c@g.us.example", "status@broadcast", ""}
Texts == {"", "hi"}
ExtendedTexts == {"", "re: hi"}
Captions == {"", "cap", "0"}
Messages ==
    {m \in [present : BOOLEAN, conversation : Texts, extendedText : ExtendedTexts,
            imageCaption : Captions, videoCaption : Captions,
            documentCaption : Captions, audio : BOOLEAN] :
        m.present \/ (/\ m.conversation = "" /\ m.extendedText = ""
                      /\ m.imageCaption = "" /\ m.videoCaption = ""
                      /\ m.documentCaption = "" /\ ~m.audio)}
Envelopes ==
    {[key |-> [fromMe |-> f, remoteJid |-> j, id |-> "id-1", remoteJidAlt |-> ""],
      message |-> m, messageTimestamp |-> 1700000000] :
        f \in BOOLEAN, j \in Jids, m \in Messages}
UpsertTypes == {"notify", "append"}

EndsWith(str, suffix) ==
    /\ Len(str) >= Len(suffix)
    /\ SubSeq(str, Len(str) - Len(suffix) + 1, Len(str)) = suffix

\* (the extraction that looks at the extended text before the plain text)
extractMessageContent_extendedFirst(msg) ==
    LET message == msg.message IN
    IF ~message.present THEN ""
    ELSE IF message.extendedText # "" THEN message.extendedText
    ELSE IF message.conversation # "" THEN message.conversation
    ELSE IF message.imageCaption # "" THEN "[Image] " \o message.imageCaption
    ELSE IF message.videoCaption # "" THEN "[Video] " \o message.videoCaption
    ELSE IF message.documentCaption # "" THEN "[Document] " \o message.documentCaption
    ELSE IF message.audio THEN "[Voice Message]"
    ELSE ""

\* (the extraction that has no placeholder for audio)
extractMessageContent_noAudio(msg) ==
    LET message == msg.message IN
    IF ~message.present THEN ""
    ELSE IF message.conversation # "" THEN message.conversation
    ELSE IF message.extendedText # "" THEN message.extendedText
    ELSE IF message.imageCaption # "" THEN "[Image] " \o message.imageCaption
    ELSE IF message.videoCaption # "" THEN "[Video] " \o message.videoCaption
    ELSE IF message.documentCaption # "" THEN "[Document] " \o message.documentCaption
    ELSE IF message.audio THEN ""
    ELSE ""

\* (the extraction that labels a video caption as an image caption)
extractMessageContent_videoAsImage(msg) ==
    LET message == msg.message IN
    IF ~message.present THEN ""
    ELSE IF message.conversation # "" THEN message.conversation
    ELSE IF message.extendedText # "" THEN message.extendedText
    ELSE IF message.imageCaption # "" THEN "[Image] " \o message.imageCaption
    ELSE IF message.videoCaption # "" THEN "[Image] " \o message.videoCaption
    ELSE IF message.documentCaption # "" THEN "[Document] " \o message.documentCaption
    ELSE IF message.audio THEN "[Voice Message]"
    ELSE ""

\* WhatsAppClient.extractMessageContent; "" is its null
extractMessageContent(msg) ==
    LET message == msg.message IN
    IF ~message.present THEN ""
    ELSE IF message.conversation # "" THEN message.conversation
    ELSE IF message.extendedText # "" THEN message.extendedText
    ELSE IF message.imageCaption # "" THEN "[Image] " \o message.imageCaption
    ELSE IF message.videoCaption # "" THEN "[Video] " \o message.videoCaption
    ELSE IF message.documentCaption # "" THEN "[Document] " \o message.documentCaption
    ELSE IF message.audio THEN "[Voice Message]"
    ELSE ""

\* (the filters without the test of fromMe)
skipped_keepsOwn(msg) ==
    \/ msg.key.remoteJid = "status@broadcast"
    \/ extractMessageContent(msg) = ""

\* The body of the loop over the batch: the filters, then onMessage.
skipped(msg) ==
    \/ msg.key.fromMe
    \/ msg.key.remoteJid = "status@broadcast"
    \/ extractMessageContent(msg) = ""

\* (the event that takes any address naming the group server for a group)
inboundMessage_groupAnywhere(msg) ==
    [type |-> "message",
     id |-> msg.key.id,
     sender |-> msg.key.remoteJid,
     pn |-> msg.key.remoteJidAlt,
     content |-> extractMessageContent(msg),
     timestamp |-> msg.messageTimestamp,
     isGroup |-> \E i \in 1..Len(msg.key.remoteJid) :
                    EndsWith(SubSeq(msg.key.remoteJid, 1, i), "@g.us")]

\* The argument of onMessage.
inboundMessage(msg) ==
    [type |-> "message",
     id |-> msg.key.id,
     sender |-> msg.key.remoteJid,
     pn |-> msg.key.remoteJidAlt,
     content |-> extractMessageContent(msg),
     timestamp |-> msg.messageTimestamp,
     isGroup |-> EndsWith(msg.key.remoteJid, "@g.us")]

\* (the loop that ends at the first envelope it skips)
RECURSIVE eventsOf_stopsAtSkipped(_)
eventsOf_stopsAtSkipped(msgs) ==
    IF msgs = <<>> \/ skipped(Head(msgs)) THEN <<>>
    ELSE <<inboundMessage(Head(msgs))>> \o eventsOf_stopsAtSkipped(Tail(msgs))

\* The message events of one batch, in the order of the loop.
RECURSIVE eventsOf(_)
eventsOf(msgs) ==
    IF msgs = <<>> THEN <<>>
    ELSE (IF skipped(Head(msgs)) THEN <<>> ELSE <<inboundMessage(Head(msgs))>>)
         \o eventsOf(Tail(msgs))

\* (the handler that takes a batch of any delivery type)
messagesUpsert_anyType(s, type, msgs) ==
    LET evs == eventsOf(msgs) IN
    /\ s \in 1..Len(socks)
    /\ socks[s].status = "open"
    /\ Len(raised) + Len(msgs) <= MaxUpdates
    /\ step' = Step("messages", s, type, msgs)
    /\ raised' = raised \o evs
    /\ inbox' = broadcastAll(clients, inbox, evs)
    /\ UNCHANGED <<client, listener, exitCode, authState, waVars, srvVars, cmdVars, histVars>>

\* The messages.upsert handler registered by connect().
messagesUpsert(s, type, msgs) ==
    LET evs == IF type # "notify" THEN <<>> ELSE eventsOf(msgs) IN
    /\ s \in 1..Len(socks)
    /\ socks[s].status = "open"
    /\ Len(raised) + Len(msgs) <= MaxUpdates
    /\ step' = Step("messages", s, type, msgs)
    /\ raised' = raised \o evs
    /\ inbox' = broadcastAll(clients, inbox, evs)
    /\ UNCHANGED <<client, listener, exitCode, authState, waVars, srvVars, cmdVars, histVars>>

\* ------------------------------------------------------------- BridgeServer
\* BridgeServer.start: the listener, the client and its callbacks, connect()
start ==
    /\ step' = Did("start")
    /\ ~client
    /\ wss' = TRUE
    /\ listener' = "listening"
    /\ wa' = TRUE
    /\ client' = TRUE
    /\ connectCall("api")
    /\ UNCHANGED <<exitCode, authState, sock, reconnecting, timers, socks, clients, ready,
                   inbox, raised>>
    /\ UNCHANGED <<cmdVars, histVars>>

\* (an 'error' listener on wss that logs the failure and goes on)
wssError_logged == UNCHANGED exitCode

\* The 'error' event of wss: start() gives wss a 'connection' listener and
\* no 'error' listener, so the event is thrown and ends the process.
wssError == exitCode' = "1"

\* start() when the port is taken: the listen of new WebSocketServer fails
\* after the constructor has returned, the rest of start() runs up to the
\* first suspension of connect(), and wss emits 'error' at the next tick.
listenFails ==
    /\ step' = Did("listenFails")
    /\ ~client
    /\ exitCode = "none"
    /\ wss' = TRUE
    /\ listener' = "failed"
    /\ wa' = TRUE
    /\ client' = TRUE
    /\ connectCall("api")
    /\ wssError
    /\ UNCHANGED <<authState, sock, reconnecting, timers, socks, clients, ready,
                   inbox, raised>>
    /\ UNCHANGED <<cmdVars, histVars>>

\* start() when new WebSocketServer throws (the port is out of range):
\* start() rejects before this.wa is set, and the catch of the entry point
\* logs the error and calls process.exit(1).
startThrows ==
    /\ step' = Did("startThrows")
    /\ ~client
    /\ exitCode = "none"
    /\ listener' = "failed"
    /\ exitCode' = "1"
    /\ UNCHANGED <<client, authState, wss, wa, clients, ready, inbox, raised>>
    /\ UNCHANGED <<waVars, cmdVars, histVars>>

\* (the connection handler that greets a controller with the events so far)
accept_replays(c) ==
    /\ step' = Step("accept", c, "", "")
    /\ wss
    /\ listener = "listening"
    /\ ready[c] = "none"
    /\ \A d \in 1..(c - 1) : ready[d] # "none"
    /\ ready' = [ready EXCEPT ![c] = "open"]
    /\ clients' = clients \cup {c}
    /\ inbox' = [inbox EXCEPT ![c] = @ \o raised]
    /\ UNCHANGED <<client, listener, exitCode, authState, wss, wa, raised>>
    /\ UNCHANGED <<waVars, cmdVars, histVars>>

\* wss.on('connection')
accept(c) ==
    /\ step' = Step("accept", c, "", "")
    /\ wss
    /\ listener = "listening"
    /\ ready[c] = "none"
    /\ \A d \in 1..(c - 1) : ready[d] # "none"
    /\ ready' = [ready EXCEPT ![c] = "open"]
    /\ clients' = clients \cup {c}
    /\ UNCHANGED <<client, listener, exitCode, authState, wss, wa, inbox, raised>>
    /\ UNCHANGED <<waVars, cmdVars, histVars>>

\* The peer starts closing: the connection is registered, no longer OPEN.
closing(c) ==
    /\ step' = Step("closing", c, "", "")
    /\ ready[c] = "open"
    /\ ready' = [ready EXCEPT ![c] = "closing"]
    /\ UNCHANGED <<client, listener, exitCode, authState, wss, wa, clients, inbox, raised>>
    /\ UNCHANGED <<waVars, cmdVars, histVars>>

\* ws.on('close')
wsClose(c) ==
    /\ step' = Step("wsClose", c, "", "")
    /\ ready[c] \in {"open", "closing", "errored"}
    /\ ready' = [ready EXCEPT ![c] = "closed"]
    /\ clients' = clients \ {c}
    /\ UNCHANGED <<client, listener, exitCode, authState, wss, wa, inbox, raised>>
    /\ UNCHANGED <<waVars, cmdVars, histVars>>

\* (the error handler that leaves the connection registered)
wsError_keeps(c) ==
    /\ step' = Step("wsError", c, "", "")
    /\ ready[c] \in {"open", "closing"}
    /\ ready' = [ready EXCEPT ![c] = "errored"]
    /\ UNCHANGED <<client, listener, exitCode, authState, wss, wa, clients, inbox, raised>>
    /\ UNCHANGED <<waVars, cmdVars, histVars>>

\* ws.on('error'): the transport is going down, its close event follows
wsError(c) ==
    /\ step' = Step("wsError", c, "", "")
    /\ ready[c] \in {"open", "closing"}
    /\ ready' = [ready EXCEPT ![c] = "errored"]
    /\ clients' = clients \ {c}
    /\ UNCHANGED <<client, listener, exitCode, authState, wss, wa, inbox, raised>>
    /\ UNCHANGED <<waVars, cmdVars, histVars>>

\* The frames a controller may send: a send command, a command of another
\* type, text that is not JSON.
Cmds(c) ==
    {[conn |-> c, type |-> "send", to |-> t] : t \in Targets}
    \cup {[conn |-> c, type |-> "ping", to |-> ""],
          [conn |-> c, type |-> "!json", to |-> ""]}

\* (the description that leaves the type out)
unknownType_noType(type) == "unknown command type"

\* `unknown command type: ${cmd.type}`
unknownType(type) == "unknown command type: " \o type

\* String(error) of the SyntaxError thrown by JSON.parse
parseError == "SyntaxError: Unexpected token 'h', \"hello\" is not valid JSON"

\* WhatsAppClient.sendMessage, up to the upstream call
notConnected == sock = 0

\* WhatsAppClient.sendMessage called by the owner of the client: it throws
\* without a socket, and hands the text to the socket otherwise.
sendMessage(to) ==
    /\ client
    /\ nCmds < MaxCmds
    /\ nCmds' = nCmds + 1
    /\ IF notConnected
       THEN /\ step' = Step("sendMessage", 0, "Not connected", to)
            /\ UNCHANGED <<sending, delegated>>
       ELSE /\ step' = Step("sendMessage", 0, "", to)
            /\ sending' = Append(sending, [conn |-> 0, to |-> to, sock |-> sock])
            /\ delegated' = delegated + 1
    /\ UNCHANGED <<client, listener, exitCode, authState, inbox, raised>>
    /\ UNCHANGED <<waVars, srvVars, histVars>>

\* ws.on('message'): JSON.parse, handleCommand, the catch block
message(c, cmd) ==
    /\ ready[c] \in {"open", "closing"}
    /\ cmd \in Cmds(c)
    /\ nCmds < MaxCmds
    /\ nCmds' = nCmds + 1
    /\ step' = DidMessage(cmd)
    /\ CASE cmd.type = "!json" ->
              /\ inbox' = wsSend(inbox, c, Frame("error", parseError))
              /\ UNCHANGED <<sending, delegated>>
         [] cmd.type # "send" /\ cmd.type # "!json" ->
              /\ inbox' = wsSend(inbox, c, Frame("error", unknownType(cmd.type)))
              /\ UNCHANGED <<sending, delegated>>
         [] cmd.type = "send" /\ ~wa ->
              /\ inbox' = wsSend(inbox, c, Frame("error", "WhatsApp not connected"))
              /\ UNCHANGED <<sending, delegated>>
         [] cmd.type = "send" /\ wa /\ notConnected ->
              /\ inbox' = wsSend(inbox, c, Frame("error", "Error: Not connected"))
              /\ UNCHANGED <<sending, delegated>>
         [] cmd.type = "send" /\ wa /\ ~notConnected ->
              /\ sending' = Append(sending, [conn |-> c, to |-> cmd.to, sock |-> sock])
              /\ delegated' = delegated + 1
              /\ UNCHANGED inbox
    /\ UNCHANGED <<client, listener, exitCode, authState, raised>>
    /\ UNCHANGED <<waVars, srvVars, histVars>>

\* (the rejection that also drops the connection from the live set)
sent_failureDrops(i, ok) ==
    /\ step' = Step("sent", sending[i].conn, IF ok THEN "ok" ELSE "fail", sending[i].to)
    /\ i \in 1..Len(sending)
    /\ sending' = RemoveAt(sending, i)
    /\ inbox' = wsSend(inbox, sending[i].conn,
                       IF ok THEN Frame("sent", sending[i].to)
                       ELSE Frame("error", "Error: Connection Closed"))
    /\ clients' = IF ok THEN clients ELSE clients \ {sending[i].conn}
    /\ UNCHANGED <<client, listener, exitCode, authState, raised, nCmds, delegated, wss, wa, ready>>
    /\ UNCHANGED <<waVars, histVars>>

\* (the reply that goes to the connection of the oldest pending send)
sent_oldestPending(i, ok) ==
    /\ step' = Step("sent", sending[i].conn, IF ok THEN "ok" ELSE "fail", sending[i].to)
    /\ i \in 1..Len(sending)
    /\ sending' = RemoveAt(sending, i)
    /\ inbox' = wsSend(inbox, sending[1].conn,
                       IF ok THEN Frame("sent", sending[i].to)
                       ELSE Frame("error", "Error: Connection Closed"))
    /\ UNCHANGED <<client, listener, exitCode, authState, raised, nCmds, delegated>>
    /\ UNCHANGED <<waVars, srvVars, histVars>>

\* The upstream sendMessage settles, resolved or rejected as the library
\* decides; handleCommand resumes or the catch block runs.
sent(i, ok) ==
    /\ step' = Step("sent", sending[i].conn, IF ok THEN "ok" ELSE "fail", sending[i].to)
    /\ i \in 1..Len(sending)
    /\ sending' = RemoveAt(sending, i)
    /\ inbox' = wsSend(inbox, sending[i].conn,
                       IF ok THEN Frame("sent", sending[i].to)
                       ELSE Frame("error", "Error: Connection Closed"))
    /\ UNCHANGED <<client, listener, exitCode, authState, raised, nCmds, delegated>>
    /\ UNCHANGED <<waVars, srvVars, histVars>>

\* (the shutdown that disconnects before it clears the live set)
stop_disconnectsFirst ==
    /\ step' = Did("stop")
    /\ wss
    /\ ready' = [c \in Conns |-> IF c \in clients /\ ready[c] = "open"
                                 THEN "closing" ELSE ready[c]]
    /\ clients' = {}
    /\ wss' = FALSE
    /\ IF wa THEN disconnectBody(clients) /\ deliberate' = TRUE
       ELSE UNCHANGED <<sock, socks, raised, inbox, reconnecting, timers,
                        deliberate, window>>
    /\ wa' = FALSE
    /\ listener' = "closed"
    /\ UNCHANGED <<client, exitCode, authState, inflight, served>>
    /\ UNCHANGED cmdVars

\* BridgeServer.stop
stop ==
    /\ step' = Did("stop")
    /\ wss
    /\ ready' = [c \in Conns |-> IF c \in clients /\ ready[c] = "open"
                                 THEN "closing" ELSE ready[c]]
    /\ clients' = {}
    /\ wss' = FALSE
    /\ IF wa THEN disconnectBody({}) /\ deliberate' = TRUE
       ELSE UNCHANGED <<sock, socks, raised, inbox, reconnecting, timers,
                        deliberate, window>>
    /\ wa' = FALSE
    /\ listener' = "closed"
    /\ UNCHANGED <<client, exitCode, authState, inflight, served>>
    /\ UNCHANGED cmdVars

\* ------------------------------------------------------------------- frames
\* JSON text of the values the events carry. A frame is the sequence of the
\* members of the JSON object, each a key and the JSON text of its value.
Char(str, i) == SubSeq(str, i, i)

\* (the string written without escaping the double quote)
RECURSIVE escape_keepsQuote(_)
escape_keepsQuote(str) ==
    IF str = "" THEN ""
    ELSE (CASE Char(str, 1) = "\\" -> "\\\\"
            [] Char(str, 1) = "\n" -> "\\n"
            [] OTHER -> Char(str, 1)) \o escape_keepsQuote(SubSeq(str, 2, Len(str)))

\* JSON.stringify of the characters of a string
RECURSIVE escape(_)
escape(str) ==
    IF str = "" THEN ""
    ELSE (CASE Char(str, 1) = "\"" -> "\\\""
            [] Char(str, 1) = "\\" -> "\\\\"
            [] Char(str, 1) = "\n" -> "\\n"
            [] OTHER -> Char(str, 1)) \o escape(SubSeq(str, 2, Len(str)))

jsonString(str) == "\"" \o escape(str) \o "\""
jsonNumber(n) == ToString(n)
jsonBoolean(b) == IF b THEN "true" ELSE "false"

\* JSON.stringify(event), for the events BridgeServer builds: the type, then
\* the members of the event.
stringify(f) ==
    <<<<"type", jsonString(f.type)>>>> \o
    (CASE f.type = "message" ->
            <<<<"id", jsonString(f.id)>>, <<"sender", jsonString(f.sender)>>,
              <<"pn", jsonString(f.pn)>>, <<"content", jsonString(f.content)>>,
              <<"timestamp", jsonNumber(f.timestamp)>>,
              <<"isGroup", jsonBoolean(f.isGroup)>>>>
       [] f.type = "qr" -> <<<<"qr", jsonString(f.val)>>>>
       [] f.type = "status" -> <<<<"status", jsonString(f.val)>>>>
       [] f.type = "error" -> <<<<"error", jsonString(f.val)>>>>
       [] f.type = "sent" -> <<<<"to", jsonString(f.val)>>>>)

\* The controller's side: the parsing of a frame, by the frame formats.
\* The characters of a JSON string, read up to its closing quote.
RECURSIVE unescape(_)
unescape(txt) ==
    IF txt = "" \/ Char(txt, 1) = "\"" THEN ""
    ELSE IF Char(txt, 1) = "\\" /\ Len(txt) >= 2
         THEN (IF Char(txt, 2) = "n" THEN "\n" ELSE Char(txt, 2))
              \o unescape(SubSeq(txt, 3, Len(txt)))
         ELSE Char(txt, 1) \o unescape(SubSeq(txt, 2, Len(txt)))

parseString(txt) == unescape(SubSeq(txt, 2, Len(txt)))

Digits == <<"0", "1", "2", "3", "4", "5", "6", "7", "8", "9">>

RECURSIVE parseNumber(_)
parseNumber(txt) ==
    IF txt = "" THEN 0
    ELSE parseNumber(SubSeq(txt, 1, Len(txt) - 1)) * Len(Digits)
         + (CHOOSE d \in 0..(Len(Digits) - 1) : Digits[d + 1] = Char(txt, Len(txt)))

parseBoolean(txt) == txt = "true"

Member(frame, key) == frame[CHOOSE i \in 1..Len(frame) : frame[i][1] = key][2]

parseFrame(frame) ==
    LET type == parseString(Member(frame, "type")) IN
    IF type = "message"
    THEN [type |-> type,
          id |-> parseString(Member(frame, "id")),
          sender |-> parseString(Member(frame, "sender")),
          pn |-> parseString(Member(frame, "pn")),
          content |-> parseString(Member(frame, "content")),
          timestamp |-> parseNumber(Member(frame, "timestamp")),
          isGroup |-> parseBoolean(Member(frame, "isGroup"))]
    ELSE [type |-> type,
          val |-> parseString(Member(frame, IF type = "sent" THEN "to" ELSE type))]

\* ------------------------------------------------------------ specification
Init ==
    /\ client = FALSE
    /\ authState = "empty"
    /\ sock = 0
    /\ reconnecting = FALSE
    /\ timers = 0
    /\ inflight = <<>>
    /\ socks = <<>>
    /\ sending = <<>>
    /\ wss = FALSE
    /\ listener = "none"
    /\ exitCode = "none"
    /\ wa = FALSE
    /\ clients = {}
    /\ ready = [c \in Conns |-> "none"]
    /\ inbox = [c \in Conns |-> <<>>]
    /\ raised = <<>>
    /\ step = Did("new")
    /\ nCmds = 0
    /\ delegated = 0
    /\ deliberate = FALSE
    /\ window = 0
    /\ served = 0

\* The bridge as index.ts runs it: connect() and disconnect() are called by
\* start() and stop() only.
Next ==
    \/ start
    \/ stop
    \/ reconnectTimer
    \/ Len(socks) < BridgeSockets /\ \E i \in 1..Len(inflight) : makeWASocket(i)
    \/ \E i \in 1..Len(inflight) : connectFails(i)
    \/ /\ Len(raised) < BridgeUpdates
       /\ \E s \in 1..Len(socks) : \E u \in Updates(s) : connectionUpdate(s, u)
    \/ /\ Len(raised) < BridgeUpdates
       /\ \E s \in 1..Len(socks) : \E b \in Batches : messagesUpsert(s, "notify", b)
    \/ \E c \in 1..BridgeConns : accept(c)
    \/ \E c \in Conns : closing(c)
    \/ \E c \in Conns : wsClose(c)
    \/ \E c \in Conns : wsError(c)
    \/ nCmds < BridgeCmds /\ \E c \in Conns : \E cmd \in Cmds(c) : message(c, cmd)
    \/ \E i \in 1..Len(sending) : \E ok \in BOOLEAN : sent(i, ok)

Spec == Init /\ [][Next]_vars

\* The fan-out of the bridge: the events of one socket and the controllers
\* that come and go, no command received.
NextFan ==
    \/ start
    \/ stop
    \/ Len(socks) < BridgeSockets /\ \E i \in 1..Len(inflight) : makeWASocket(i)
    \/ /\ Len(raised) < BridgeUpdates
       /\ \E s \in 1..Len(socks) : \E u \in Updates(s) : connectionUpdate(s, u)
    \/ /\ Len(raised) < BridgeUpdates
       /\ \E s \in 1..Len(socks) : \E b \in Batches : messagesUpsert(s, "notify", b)
    \/ \E c \in Conns : accept(c)
    \/ \E c \in Conns : closing(c)
    \/ \E c \in Conns : wsClose(c)
    \/ \E c \in Conns : wsError(c)

SpecFan == Init /\ [][NextFan]_vars

\* The relay of commands: the controllers, their frames and the settling of
\* the upstream sends, over one socket.
NextCmd ==
    \/ start
    \/ Len(socks) < BridgeSockets /\ \E i \in 1..Len(inflight) : makeWASocket(i)
    \/ /\ Len(raised) < BridgeUpdates
       /\ \E s \in 1..Len(socks) : \E u \in Updates(s) : connectionUpdate(s, u)
    \/ \E c \in 1..BridgeConns : accept(c)
    \/ \E c \in Conns : wsClose(c)
    \/ \E c \in Conns : \E cmd \in Cmds(c) : message(c, cmd)
    \/ \E i \in 1..Len(sending) : \E ok \in BOOLEAN : sent(i, ok)

SpecCmd == Init /\ [][NextCmd]_vars

\* The replies of the bridge: the commands of the controllers and the
\* settling of their sends, while controllers leave and the server stops.
NextReply ==
    \/ start
    \/ stop
    \/ Len(socks) < BridgeSockets /\ \E i \in 1..Len(inflight) : makeWASocket(i)
    \/ \E c \in 1..BridgeConns : accept(c)
    \/ \E c \in Conns : closing(c)
    \/ \E c \in Conns : wsClose(c)
    \/ \E c \in Conns : \E cmd \in Cmds(c) : message(c, cmd)
    \/ \E i \in 1..Len(sending) : \E ok \in BOOLEAN : sent(i, ok)

SpecReply == Init /\ [][NextReply]_vars

\* The pairing of a device: the auth challenges of one socket, each with its
\* own token, and the controllers that watch them.
NextQR ==
    \/ start
    \/ Len(socks) < BridgeSockets /\ \E i \in 1..Len(inflight) : makeWASocket(i)
    \/ \E s \in 1..Len(socks) : \E u \in UpdatesOver(s, Challenges) : connectionUpdate(s, u)
    \/ \E c \in 1..BridgeConns : accept(c)
    \/ \E c \in Conns : closing(c)

SpecQR == Init /\ [][NextQR]_vars

\* The normalizer: the bridge runs, its socket is open, a controller is
\* connected, and the socket has a batch of one envelope to hand over.
InitNorm ==
    /\ client = TRUE
    /\ sock = 1
    /\ reconnecting = FALSE
    /\ timers = 0
    /\ inflight = <<>>
    /\ authState = "paired"
    /\ socks = <<[status |-> "open", code |-> undefinedCode, creds |-> "paired",
                  origin |-> "api",
                  calledIn |-> "Disconnected"]>>
    /\ sending = <<>>
    /\ wss = TRUE
    /\ listener = "listening"
    /\ exitCode = "none"
    /\ wa = TRUE
    /\ clients = {1}
    /\ ready = [c \in Conns |-> IF c = 1 THEN "open" ELSE "none"]
    /\ inbox = [c \in Conns |-> IF c = 1 THEN <<Frame("status", "connected")>> ELSE <<>>]
    /\ raised = <<Frame("status", "connected")>>
    /\ \E type \in UpsertTypes : \E e \in Envelopes :
          step = Step("upsert", 1, type, <<e>>)
    /\ nCmds = 0
    /\ delegated = 0
    /\ deliberate = FALSE
    /\ window = 0
    /\ served = 0

NextNorm == step.op = "upsert" /\ messagesUpsert(step.conn, step.type, step.arg)

SpecNorm == InitNorm /\ [][NextNorm]_vars

\* The loop of the messages.upsert handler, run once on each batch of a few
\* envelopes.
InitBatch ==
    /\ client = TRUE
    /\ sock = 1
    /\ reconnecting = FALSE
    /\ timers = 0
    /\ inflight = <<>>
    /\ authState = "paired"
    /\ socks = <<[status |-> "open", code |-> undefinedCode, creds |-> "paired",
                  origin |-> "api",
                  calledIn |-> "Disconnected"]>>
    /\ sending = <<>>
    /\ wss = TRUE
    /\ listener = "listening"
    /\ exitCode = "none"
    /\ wa = TRUE
    /\ clients = {1}
    /\ ready = [c \in Conns |-> IF c = 1 THEN "open" ELSE "none"]
    /\ inbox = [c \in Conns |-> IF c = 1 THEN <<Frame("status", "connected")>> ELSE <<>>]
    /\ raised = <<Frame("status", "connected")>>
    /\ \E type \in UpsertTypes : \E b \in BatchesOf(MaxUpdates - 1) :
          step = Step("upsert", 1, type, b)
    /\ nCmds = 0
    /\ delegated = 0
    /\ deliberate = FALSE
    /\ window = 0
    /\ served = 0

NextBatch == step.op = "upsert" /\ messagesUpsert(step.conn, step.type, step.arg)

SpecBatch == InitBatch /\ [][NextBatch]_vars

\* The frames of the bridge: one controller, the events of one socket, the
\* batches it hands over and the commands of the controller.
NextWire ==
    \/ start
    \/ Len(socks) < BridgeSockets /\ \E i \in 1..Len(inflight) : makeWASocket(i)
    \/ \E s \in 1..Len(socks) : \E u \in UpdatesOver(s, Challenges) : connectionUpdate(s, u)
    \/ \E s \in 1..Len(socks) : \E b \in Batches : messagesUpsert(s, "notify", b)
    \/ clients = {} /\ \E c \in Conns : accept(c)
    \/ \E c \in Conns : \E cmd \in Cmds(c) : message(c, cmd)
    \/ \E i \in 1..Len(sending) : \E ok \in BOOLEAN : sent(i, ok)

SpecWire == Init /\ [][NextWire]_vars

\* The WhatsAppClient on its own, after new WhatsAppClient(options): its
\* public operations are called in any order.
\* The entry point: start() with either outcome of the bind, and what
\* runs after it. A process that has exited runs nothing.
running == exitCode = "none"

NextBoot ==
    \/ running /\ start
    \/ listenFails
    \/ startThrows
    \/ running /\ Len(socks) < BridgeSockets
               /\ \E i \in 1..Len(inflight) : makeWASocket(i)
    \/ running /\ \E s \in 1..Len(socks) : \E u \in Updates(s) : connectionUpdate(s, u)
    \/ running /\ reconnectTimer
    \/ running /\ \E c \in Conns : accept(c)
    \/ running /\ \E c \in Conns : wsClose(c)
    \/ running /\ stop

SpecBoot == Init /\ [][NextBoot]_vars

InitWA ==
    /\ client = TRUE
    /\ authState = "empty"
    /\ sock = 0
    /\ reconnecting = FALSE
    /\ timers = 0
    /\ inflight = <<>>
    /\ socks = <<>>
    /\ sending = <<>>
    /\ wss = FALSE
    /\ listener = "none"
    /\ exitCode = "none"
    /\ wa = FALSE
    /\ clients = {}
    /\ ready = [c \in Conns |-> "none"]
    /\ inbox = [c \in Conns |-> <<>>]
    /\ raised = <<>>
    /\ step = Did("new")
    /\ nCmds = 0
    /\ delegated = 0
    /\ deliberate = FALSE
    /\ window = 0
    /\ served = 0

NextWA ==
    \/ connect
    \/ disconnect
    \/ reconnectTimer
    \/ \E i \in 1..Len(inflight) : makeWASocket(i)
    \/ \E i \in 1..Len(inflight) : connectFails(i)
    \/ \E s \in 1..Len(socks) : \E u \in Updates(s) : connectionUpdate(s, u)

SpecWA == InitWA /\ [][NextWA]_vars

\* The client alone with an owner that also sends: connect(), disconnect()
\* and sendMessage() in any order, over the events of its sockets.
NextSend ==
    \/ inflight = <<>> /\ connect
    \/ disconnect
    \/ reconnectTimer
    \/ \E i \in 1..Len(inflight) : makeWASocket(i)
    \/ /\ Len(raised) < BridgeUpdates
       /\ \E s \in 1..Len(socks) : \E u \in Updates(s) : connectionUpdate(s, u)
    \/ \E to \in Targets : sendMessage(to)

SpecSend == InitWA /\ [][NextSend]_vars

\* The timers of the event loop fire, and the awaits of connect() settle.
FairWA ==
    /\ WF_vars(reconnectTimer)
    /\ WF_vars(\E i \in 1..Len(inflight) : makeWASocket(i) \/ connectFails(i))

\* The retry loop of the client left to itself: connect() is called once
\* from outside, the rest is the socket's events, the timer and the awaits.
NextRetry ==
    \/ Len(socks) + Len(inflight) = 0 /\ connect
    \/ reconnectTimer
    \/ \E i \in 1..Len(inflight) : makeWASocket(i)
    \/ \E i \in 1..Len(inflight) : connectFails(i)
    \/ \E s \in 1..Len(socks) : \E u \in Updates(s) : connectionUpdate(s, u)

SpecRetry == InitWA /\ [][NextRetry]_vars /\ FairWA

\* The credentials of the client: connect() is called when the client has
\* no socket alive, no connect() suspended and no retry pending; sockets
\* pair, save their credentials, open and close.
NextAuth ==
    \/ Live = {} /\ inflight = <<>> /\ timers = 0 /\ connect
    \/ reconnectTimer
    \/ \E i \in 1..Len(inflight) : makeWASocket(i)
    \/ \E s \in 1..Len(socks) : \E u \in Updates(s) : connectionUpdate(s, u)
    \/ \E s \in 1..Len(socks) : credsUpdate(s)

SpecAuth == InitWA /\ [][NextAuth]_vars

\* ------------------------------------------------------------------- claims
Disconnected == Frame("status", "disconnected")
Connected == Frame("status", "connected")
NotConnectedErrors ==
    {Frame("error", "WhatsApp not connected"), Frame("error", "Error: Not connected")}

IsClose(st) == st.op = "update" /\ st.type = "close"
IsSend(st) == st.op = "message" /\ st.type = "send"

\* C1: at every instant at most one reconnect timer is pending, whatever
\* closes, timer firings, connect() and disconnect() calls came before.
C1_OneTimer == timers <= 1

\* A second non-logout close was handled while the timer of the first is
\* still pending.
C1_Witness == window >= 2 /\ timers = 1

\* C2: at most one socket made by makeWASocket and not yet ended exists at
\* a time.
C2_OneSession == Cardinality(Live) <= 1

\* C3: a send command received while the session is not Connected is
\* answered with a not-connected error and is not handed to the upstream
\* sendMessage.
C3_SendNeedsConnected ==
    [][(IsSend(step') /\ SessionState # "Connected")
        => /\ delegated' = delegated
           /\ sending' = sending
           /\ \E f \in NotConnectedErrors : inbox' = wsSend(inbox, step'.conn, f)]_vars

\* C4: a send command received from an open connection while the session
\* is Disconnected puts one not-connected error frame on that connection
\* and nothing on any other.
C4_DisconnectedSend ==
    [][(IsSend(step') /\ SessionState = "Disconnected" /\ ready[step'.conn] = "open")
        => /\ \E f \in NotConnectedErrors :
                inbox'[step'.conn] = Append(inbox[step'.conn], f)
           /\ \A d \in Conns \ {step'.conn} : inbox'[d] = inbox[d]]_vars

\* The session ended by a logout and nothing of the bridge's own is pending.
Terminal ==
    /\ sock # 0
    /\ socks[sock].status = "closed"
    /\ socks[sock].code = loggedOut
    /\ timers = 0
    /\ inflight = <<>>

\* C5: the handling of a close with the logout reason raises one
\* status: disconnected event, schedules no timer, leaves the guard alone
\* and starts no connect(); once the session has ended that way, with
\* nothing pending, no socket is made and only a call of connect() starts
\* a connection attempt.
C5_TerminalClose ==
    [][/\ (IsClose(step') /\ step'.arg = loggedOut)
            => /\ timers' = timers
               /\ reconnecting' = reconnecting
               /\ inflight' = inflight
               /\ Len(socks') = Len(socks)
               /\ raised' = Append(raised, Disconnected)
       /\ Terminal
            => /\ Len(socks') = Len(socks)
               /\ (inflight' # inflight => step'.op \in {"connect", "start"})]_vars

\* A logout close of the current socket was just handled and left the
\* session ended with nothing pending.
C5_Witness ==
    /\ IsClose(step)
    /\ step.arg = loggedOut
    /\ Terminal
    /\ raised # <<>>
    /\ raised[Len(raised)] = Disconnected

\* C6: all the non-logout closes handled before the timer fires share one
\* pending timer, and the firing of it starts one connect().
C6_OneAttempt ==
    [][/\ window' >= 1 => timers' = 1
       /\ step'.op = "reconnectTimer"
            => /\ timers' = 0
               /\ Len(inflight') = Len(inflight) + 1
               /\ inflight'[Len(inflight')].origin = "timer"]_vars

\* Two non-logout closes were handled, then the timer fired.
C6_Witness ==
    /\ step.op = "reconnectTimer"
    /\ served = 2
    /\ timers = 0
    /\ Len(SelectSeq(inflight, LAMBDA c : c.origin = "timer")) = 1

\* The status events raised since the session was last reported connected,
\* the last event left aside.
RECURSIVE SinceConnected(_)
SinceConnected(evs) ==
    IF evs = <<>> \/ evs[Len(evs)] = Connected THEN <<>>
    ELSE LET rest == SinceConnected(SubSeq(evs, 1, Len(evs) - 1)) IN
         IF evs[Len(evs)].type = "status" THEN Append(rest, evs[Len(evs)]) ELSE rest

Outage == SinceConnected(SubSeq(raised, 1, Len(raised) - 1))

\* C7: when a socket made by the reconnect timer opens after an outage
\* made of non-logout closes that were all handled while the retry was
\* pending, the outage was reported as one status: disconnected, and the
\* opening as the one status: connected that follows it.
C7_OneDisconnected ==
    (/\ step.op = "update"
     /\ step.type = "open"
     /\ socks[step.conn].origin = "timer"
     /\ ~deliberate
     /\ served = Len(Outage))
        => /\ raised[Len(raised)] = Connected
           /\ Outage = <<Disconnected>>

\* C8: no socket is made by a connect() that was called while the session
\* was Connected.
C8_Idempotent == \A s \in 1..Len(socks) : socks[s].calledIn # "Connected"

\* C9: disconnect() and stop() never set the reconnect guard and never
\* schedule a timer.
C9_NoReconnect ==
    [][step'.op \in {"disconnect", "stop"}
        => timers' = timers /\ reconnecting' = reconnecting]_vars

\* C10: after disconnect(), until connect() is called again, the reconnect
\* timer does not fire and no socket is made on behalf of it.
C10_TimerCancelled ==
    [][deliberate
        => /\ step'.op # "reconnectTimer"
           /\ (step'.op = "makeWASocket" => socks'[Len(socks')].origin # "timer")]_vars

\* C11: every close with a reason other than the logout is followed, the
\* timers firing, by a connect() that the reconnect timer starts.
C11_Reconnects ==
    (IsClose(step) /\ step.arg # loggedOut) ~> (step.op = "reconnectTimer")

\* The timer fired after a close with a reason other than the logout.
C11_Witness == step.op = "reconnectTimer" /\ served >= 1

\* C12: a connect() started by the reconnect timer that fails before a
\* socket is made is followed by a further connect() of the timer.
C12_RetriesAfterFailure ==
    (step.op = "connectFails" /\ step.type = "timer") ~> (step.op = "reconnectTimer")

\* The events raised by the step, and the steps that raise some.
NewEvents == SubSeq(raised', Len(raised) + 1, Len(raised'))
Raises == Len(raised') > Len(raised)

\* The frames of a connection that are broadcast events.
EventsIn(fs) == SelectSeq(fs, LAMBDA f : f.type \in {"status", "qr", "message"})

\* a is b with some of its elements left out.
RECURSIVE IsSubSeq(_, _)
IsSubSeq(a, b) ==
    IF a = <<>> THEN TRUE
    ELSE IF b = <<>> THEN FALSE
    ELSE IF Head(a) = Head(b) THEN IsSubSeq(Tail(a), Tail(b))
    ELSE IsSubSeq(a, Tail(b))

\* C13: the events a step raises are written, each once and as raised, to
\* every connection that is registered and OPEN when they are raised, and
\* to no other connection.
C13_FanOut ==
    [][Raises
        => \A c \in Conns :
              inbox'[c] = IF c \in clients /\ c \in clients' /\ ready'[c] = "open"
                          THEN inbox[c] \o NewEvents ELSE inbox[c]]_vars

\* Three controllers are registered and OPEN and a message event was raised:
\* each holds the same message frame, once.
C13_Witness ==
    /\ step.op = "messages"
    /\ raised # <<>>
    /\ raised[Len(raised)] = inboundMessage(TextMsg)
    /\ clients = Conns
    /\ \A c \in Conns : ready[c] = "open" /\ inbox[c] = <<inboundMessage(TextMsg)>>

\* C14: a registered connection that is not OPEN when events are raised
\* gets none of them, and the raising step still writes them to every
\* registered connection that is OPEN.
C14_SkipsNonWritable ==
    [][Raises
        => /\ \A c \in clients : ready[c] # "open" => inbox'[c] = inbox[c]
           /\ \A d \in clients' :
                 ready'[d] = "open" => Len(inbox'[d]) = Len(inbox[d]) + Len(NewEvents)]_vars

\* An event was raised while one registered connection was closing and
\* another was OPEN: the first got nothing, the second got the event.
C14_Witness ==
    /\ step.op \in {"update", "messages"}
    /\ raised # <<>>
    /\ \E c \in clients, d \in clients :
          /\ ready[c] = "closing"
          /\ inbox[c] = <<>>
          /\ ready[d] = "open"
          /\ inbox[d] = raised

\* C15: the events each connection holds are events raised, in the order
\* they were raised.
C15_InOrder == \A c \in Conns : IsSubSeq(EventsIn(inbox[c]), raised)

\* A connection holds two different events, in the order they were raised.
C15_Witness ==
    \E c \in Conns :
        /\ Len(inbox[c]) >= 2
        /\ inbox[c][1] # inbox[c][2]
        /\ inbox[c] = raised

\* A frame that is not a send command: text that does not parse, or a
\* command of another type.
IsProtocolError(st) == st.op = "message" /\ st.type # "send"

StartsWith(str, prefix) ==
    /\ Len(str) >= Len(prefix)
    /\ SubSeq(str, 1, Len(prefix)) = prefix

\* C16: a frame that does not parse or whose type is not send puts one
\* error frame on the connection it came from when that connection is OPEN,
\* puts nothing on any other connection, raises no event, calls no upstream
\* send and leaves the listener, the client and the live set as they were.
C16_ProtocolError ==
    [][IsProtocolError(step')
        => /\ IF ready[step'.conn] = "open"
              THEN /\ Len(inbox'[step'.conn]) = Len(inbox[step'.conn]) + 1
                   /\ SubSeq(inbox'[step'.conn], 1, Len(inbox[step'.conn])) = inbox[step'.conn]
                   /\ inbox'[step'.conn][Len(inbox'[step'.conn])].type = "error"
              ELSE inbox'[step'.conn] = inbox[step'.conn]
           /\ \A d \in Conns \ {step'.conn} : inbox'[d] = inbox[d]
           /\ raised' = raised
           /\ delegated' = delegated
           /\ sending' = sending
           /\ UNCHANGED <<wss, wa, clients, ready, client, waVars>>]_vars

\* A frame that is not a send command was answered on its connection while
\* another connection was OPEN and got nothing.
C16_Witness ==
    /\ IsProtocolError(step)
    /\ inbox[step.conn] # <<>>
    /\ inbox[step.conn][Len(inbox[step.conn])].type = "error"
    /\ \E d \in clients \ {step.conn} : ready[d] = "open" /\ inbox[d] = <<>>
    /\ wss /\ wa

\* C17, as stated: the error frame that answers a frame that does not
\* parse, like the one that answers a command of another type, describes
\* the error as "unknown command type: <type>".
C17_UnknownTypeAlways ==
    [][(IsProtocolError(step') /\ ready[step'.conn] = "open")
        => StartsWith(inbox'[step'.conn][Len(inbox'[step'.conn])].val,
                      "unknown command type: ")]_vars

\* C17, amended: a command of a type other than send is answered with
\* "unknown command type: <type>"; a frame that does not parse is answered
\* with the string form of the parse exception, which is not of that form.
C17_UnknownTypeOrParseError ==
    [][(IsProtocolError(step') /\ ready[step'.conn] = "open")
        => LET description == inbox'[step'.conn][Len(inbox'[step'.conn])].val IN
           IF step'.type = "!json"
           THEN StartsWith(description, "SyntaxError: ")
           ELSE description = "unknown command type: " \o step'.type]_vars

\* A frame that does not parse was answered on an OPEN connection.
C17_Witness ==
    /\ step.op = "message"
    /\ step.type = "!json"
    /\ ready[step.conn] = "open"
    /\ inbox[step.conn] # <<>>
    /\ inbox[step.conn][Len(inbox[step.conn])] = Frame("error", parseError)

\* The frames of a connection that answer its commands.
Replies(fs) == SelectSeq(fs, LAMBDA f : f.type \in {"sent", "error"})

\* The step wrote the frames fs to connection c when it is OPEN, and wrote
\* nothing to any other connection.
RepliedOnly(c, fs) ==
    /\ inbox'[c] = IF ready[c] = "open" THEN inbox[c] \o fs ELSE inbox[c]
    /\ \A d \in Conns \ {c} : inbox'[d] = inbox[d]

\* C18: while the bridge runs, a send command calls the client's
\* sendMessage once: the call either fails at once and the error is the one
\* reply, or makes one upstream call and no reply yet; each upstream call
\* settles once, and its settling writes one reply to the connection the
\* command came from, sent with the command's own target when it resolved
\* and an error when it rejected, and nothing to any other connection;
\* pending sends change in no other way.
C18_OneSendOneReply ==
    [][/\ (IsSend(step') /\ wa)
            => IF notConnected
               THEN /\ sending' = sending
                    /\ delegated' = delegated
                    /\ RepliedOnly(step'.conn, <<Frame("error", "Error: Not connected")>>)
               ELSE /\ sending' = Append(sending, [conn |-> step'.conn, to |-> step'.arg,
                                                   sock |-> sock])
                    /\ delegated' = delegated + 1
                    /\ inbox' = inbox
       /\ step'.op = "sent"
            => /\ \E i \in 1..Len(sending) :
                     /\ sending[i].conn = step'.conn
                     /\ sending[i].to = step'.arg
                     /\ sending' = RemoveAt(sending, i)
               /\ delegated' = delegated
               /\ RepliedOnly(step'.conn,
                              IF step'.type = "ok"
                              THEN <<Frame("sent", step'.arg)>>
                              ELSE <<Frame("error", "Error: Connection Closed")>>)
       /\ sending' # sending => step'.op \in {"message", "sent"}]_vars

\* Send commands of two connections, for two targets, were pending together;
\* one has settled and its connection holds the one reply, with its own
\* target, while the other connection holds none.
C18_Witness ==
    /\ step.op = "sent"
    /\ step.type = "ok"
    /\ delegated = 2
    /\ Len(sending) = 1
    /\ sending[1].conn # step.conn
    /\ sending[1].to # step.arg
    /\ ready[step.conn] = "open"
    /\ Replies(inbox[step.conn]) = <<Frame("sent", step.arg)>>
    /\ Replies(inbox[sending[1].conn]) = <<>>

\* The step answers a send command with a session error: the client is
\* gone or has no socket, or the upstream call rejected.
SessionError ==
    \/ IsSend(step') /\ (~wa \/ notConnected)
    \/ step'.op = "sent" /\ step'.type = "fail"

NotConnectedError == Frame("error", "Error: Not connected")

\* C19: a step that answers a send command with a session error leaves the
\* listener, the live set, the connections, the client, its socket, its
\* reconnect guard and its timers as they were, and raises no event.
C19_SessionErrorLocal ==
    [][SessionError
        => /\ UNCHANGED <<wss, wa, clients, ready, client>>
           /\ UNCHANGED <<sock, socks, reconnecting, timers, inflight>>
           /\ SessionState' = SessionState
           /\ raised' = raised]_vars

\* A connection was answered with a not-connected error, and after that
\* received a status event and the sent reply of a later command.
C19_Witness ==
    /\ step.op = "sent"
    /\ step.type = "ok"
    /\ Len(inbox[step.conn]) = 3
    /\ inbox[step.conn][1] = NotConnectedError
    /\ inbox[step.conn][2] = Connected
    /\ inbox[step.conn][3] = Frame("sent", step.arg)

\* The connections accepted and neither closed nor errored.
Accepted == {c \in Conns : ready[c] \in {"open", "closing"}}

\* C20: while the listener is up the live set is the set of the connections
\* accepted and neither closed nor errored; an accept adds the new
\* connection and nothing else, a close or an error removes that connection
\* and nothing else.
C20_LiveSet ==
    [][/\ wss' => clients' = Accepted'
       /\ step'.op = "accept"
            => step'.conn \notin clients /\ clients' = clients \cup {step'.conn}
       /\ step'.op \in {"wsClose", "wsError"}
            => clients' = clients \ {step'.conn}]_vars

\* Of three connections accepted, one errored and one closed: the third is
\* the live set.
C20_Witness ==
    /\ wss
    /\ step.op \in {"wsClose", "wsError"}
    /\ \E c \in Conns, d \in Conns, e \in Conns :
          /\ ready[c] = "errored"
          /\ ready[d] = "closed"
          /\ ready[e] = "open"
          /\ clients = {e}

\* A controller joins or leaves.
IsMembership(st) == st.op \in {"accept", "closing", "wsClose", "wsError"}

Stopped == client /\ ~wss

\* C22: stop() leaves no connection OPEN and the live set empty, writes no
\* frame to any connection, the status event of the teardown included, and
\* no frame is written to any connection afterwards.
C22_ShutdownOrder ==
    [][/\ step'.op = "stop"
            => /\ clients' = {}
               /\ \A c \in Conns : ready'[c] # "open"
               /\ inbox' = inbox
       /\ Stopped => inbox' = inbox /\ clients' = {}]_vars

\* stop() ended an open session, whose teardown raised the disconnected
\* status, and a controller that was connected holds no such frame.
C22_Witness ==
    /\ step.op = "stop"
    /\ raised = <<Connected, Disconnected>>
    /\ \E c \in Conns : ready[c] = "closing" /\ inbox[c] = <<Connected>>

\* C23: a connect() started by the reconnect timer never runs while an
\* earlier connect() is still suspended before its makeWASocket.
C23_Serialized == \A i \in 2..Len(inflight) : inflight[i].origin # "timer"

IsChallenge(st) == st.op = "update" /\ st.type = "qr"

\* C24: the handling of an auth challenge raises one qr event with the
\* token of the challenge and no status event, and writes that one frame to
\* every connection registered and OPEN; so a challenge that follows a
\* pending one is broadcast right after it.
C24_OneQRFrame ==
    [][IsChallenge(step')
        => /\ raised' = Append(raised, Frame("qr", step'.arg))
           /\ \A c \in Conns :
                 inbox'[c] = IF c \in clients /\ ready[c] = "open"
                             THEN Append(inbox[c], Frame("qr", step'.arg))
                             ELSE inbox[c]
           /\ SessionState' = "AwaitingScan"]_vars

\* A second challenge, with another token, arrived while the first was
\* pending: a controller holds the two qr frames, one after the other.
C24_Witness ==
    /\ IsChallenge(step)
    /\ raised = <<Frame("qr", "qr-1"), Frame("qr", "qr-2")>>
    /\ \E c \in clients : ready[c] = "open" /\ inbox[c] = raised

\* The envelope of a batch of one that a messages.upsert handler ran on.
Handled(st) == st.op = "messages" /\ Len(st.arg) = 1
Env(st) == st.arg[1]

Own(e) == e.key.fromMe
StatusBroadcast(e) == e.key.remoteJid = "status@broadcast"

\* The message events among the events the step raised.
NewMessages == SelectSeq(NewEvents, LAMBDA f : f.type = "message")

\* The fields of a message object that carry content, in the order of the
\* precedence: the texts, the labelled captions, the audio placeholder.
Candidates(m) ==
    <<m.conversation,
      m.extendedText,
      IF m.imageCaption # "" THEN "[Image] " \o m.imageCaption ELSE "",
      IF m.videoCaption # "" THEN "[Video] " \o m.videoCaption ELSE "",
      IF m.documentCaption # "" THEN "[Document] " \o m.documentCaption ELSE "",
      IF m.audio THEN "[Voice Message]" ELSE "">>

\* The first candidate that is not empty, "" when there is none.
FirstMatch(m) ==
    LET cs == Candidates(m)
        found == {i \in 1..Len(cs) : cs[i] # ""}
    IN IF found = {} THEN ""
       ELSE cs[CHOOSE i \in found : \A j \in found : i <= j]

\* The handler ran on a batch of type notify whose envelope passes the
\* filters of origin and address.
Eligible(st) ==
    /\ Handled(st)
    /\ st.type = "notify"
    /\ ~Own(Env(st))
    /\ ~StatusBroadcast(Env(st))

\* C25: the handling of an envelope sent by the session's own account, or
\* addressed to status@broadcast, raises no event and writes no frame,
\* whatever content the envelope carries.
C25_OwnAndStatusSkipped ==
    [][(Handled(step') /\ (Own(Env(step')) \/ StatusBroadcast(Env(step'))))
        => raised' = raised /\ inbox' = inbox]_vars

\* An envelope addressed to status@broadcast, not the session's own, with
\* plain text to extract, was handled and raised nothing.
C25_Witness ==
    /\ Handled(step)
    /\ step.type = "notify"
    /\ StatusBroadcast(Env(step))
    /\ ~Own(Env(step))
    /\ Env(step).message.conversation # ""
    /\ raised = <<Connected>>

\* C26: the content of the message event raised for an envelope is the
\* first non-empty of its plain text, its extended text, its image, video
\* and document captions (labelled) and the audio placeholder; an envelope
\* with none of them raises no event.
C26_Precedence ==
    [][Eligible(step')
        => NewMessages = IF FirstMatch(Env(step').message) = "" THEN <<>>
                         ELSE <<[inboundMessage(Env(step')) EXCEPT
                                    !.content = FirstMatch(Env(step').message)]>>]_vars

\* An envelope with both texts, a caption and audio was handled: the event
\* carries the plain text.
C26_Witness ==
    /\ Eligible(step)
    /\ Env(step).message.conversation # ""
    /\ Env(step).message.extendedText # ""
    /\ Env(step).message.imageCaption # ""
    /\ Env(step).message.audio
    /\ raised[Len(raised)].type = "message"
    /\ raised[Len(raised)].content = Env(step).message.conversation

NoCaption(m) == m.imageCaption = "" /\ m.videoCaption = "" /\ m.documentCaption = ""
NoText(m) == m.conversation = "" /\ m.extendedText = ""

\* C27, as stated: an envelope with audio and no caption raises a message
\* event whose content is "[Voice Message]", whatever its text fields hold.
C27_VoiceAlways ==
    [][(Eligible(step') /\ Env(step').message.audio /\ NoCaption(Env(step').message))
        => /\ Len(NewMessages) = 1
           /\ NewMessages[1].content = "[Voice Message]"]_vars

\* C27, amended: an envelope with audio, no caption and no plain or extended
\* text raises a message event whose content is "[Voice Message]"; with a
\* text, the content is the text.
C27_VoiceWithoutText ==
    [][(Eligible(step') /\ Env(step').message.audio /\ NoCaption(Env(step').message))
        => /\ Len(NewMessages) = 1
           /\ NewMessages[1].content =
                 IF NoText(Env(step').message) THEN "[Voice Message]"
                 ELSE IF Env(step').message.conversation # ""
                      THEN Env(step').message.conversation
                      ELSE Env(step').message.extendedText]_vars

\* An envelope with audio alone was handled and raised the placeholder.
C27_Witness ==
    /\ Eligible(step)
    /\ Env(step).message.audio
    /\ NoCaption(Env(step).message)
    /\ NoText(Env(step).message)
    /\ raised[Len(raised)].type = "message"
    /\ raised[Len(raised)].content = "[Voice Message]"

\* The message object holds one caption and nothing else; the kind of the
\* field that holds it and the caption.
OnlyCaption(m) ==
    /\ NoText(m)
    /\ ~m.audio
    /\ Cardinality({k \in {"image", "video", "document"} :
          (CASE k = "image" -> m.imageCaption
             [] k = "video" -> m.videoCaption
             [] k = "document" -> m.documentCaption) # ""}) = 1

Labelled(m) ==
    CASE m.imageCaption # "" -> "[Image] " \o m.imageCaption
      [] m.videoCaption # "" -> "[Video] " \o m.videoCaption
      [] m.documentCaption # "" -> "[Document] " \o m.documentCaption

\* C28: an envelope that holds one caption, on its image, video or
\* document, and nothing else raises a message event whose content is
\* "[Image] ", "[Video] " or "[Document] " followed by the caption.
C28_LabelledCaption ==
    [][(Eligible(step') /\ OnlyCaption(Env(step').message))
        => /\ Len(NewMessages) = 1
           /\ NewMessages[1].content = Labelled(Env(step').message)]_vars

\* An envelope with a video caption alone was handled.
C28_Witness ==
    /\ Eligible(step)
    /\ OnlyCaption(Env(step).message)
    /\ raised[Len(raised)].type = "message"
    /\ raised[Len(raised)].content = "[Video] 0"

\* C29: a message event is raised only by a batch of type notify, for an
\* envelope that is not the session's own and not addressed to
\* status@broadcast; its content is not empty, its sender is the address of
\* the envelope and its isGroup tells whether that address ends in "@g.us".
C29_EmittedMessage ==
    [][(Handled(step') /\ NewMessages # <<>>)
        => /\ Eligible(step')
           /\ Len(NewMessages) = 1
           /\ NewMessages[1].content # ""
           /\ NewMessages[1].sender = Env(step').key.remoteJid
           /\ NewMessages[1].isGroup = EndsWith(Env(step').key.remoteJid, "@g.us")]_vars

\* A message event was raised for an address that names the group server
\* without ending in it: it is not a group message.
C29_Witness ==
    /\ Handled(step)
    /\ raised[Len(raised)].type = "message"
    /\ raised[Len(raised)].sender = "c@g.us.example"
    /\ ~raised[Len(raised)].isGroup

\* The session of the current socket ended by a logout.
LoggedOut == sock # 0 /\ socks[sock].status = "closed" /\ socks[sock].code = loggedOut

\* C30: a socket made after the session ended by a logout is not given the
\* credentials that were kept in authDir before the logout.
C30_FreshAfterLogout ==
    [][(step'.op = "makeWASocket" /\ LoggedOut)
        => socks'[Len(socks')].creds = "empty"]_vars

BridgeEventTypes == {"message", "qr", "status", "error"}

\* C31: every message, qr, status and error frame written to a connection,
\* parsed back from its JSON text, is the event it was written for, field
\* by field.
C31_RoundTrip ==
    \A c \in Conns : \A i \in 1..Len(inbox[c]) :
        inbox[c][i].type \in BridgeEventTypes
            => parseFrame(stringify(inbox[c][i])) = inbox[c][i]

\* A connection holds a status, a message and an error frame, the last two
\* with text that holds a double quote.
C31_Witness ==
    \E c \in Conns :
        /\ Connected \in {inbox[c][i] : i \in 1..Len(inbox[c])}
        /\ inboundMessage(TextMsg) \in {inbox[c][i] : i \in 1..Len(inbox[c])}
        /\ Frame("error", parseError) \in {inbox[c][i] : i \in 1..Len(inbox[c])}

\* C32: when the bind of the listener fails the process has exited with a
\* failure, start() was the last thing to run, no upstream socket was made
\* and no controller was accepted.
C32_BindFailureFatal ==
    listener = "failed" =>
        /\ exitCode = "1"
        /\ step.op \in {"listenFails", "startThrows"}
        /\ socks = <<>>
        /\ timers = 0
        /\ clients = {}

C32_Witness ==
    /\ listener = "failed"
    /\ wss /\ wa
    /\ inflight # <<>>

C34_CurrentSocketOnly ==
    [][(/\ step'.op \in {"update", "messages"}
        /\ step'.conn < Len(socks)
        /\ socks[Len(socks)].origin = "timer")
          => (/\ raised' = raised
              /\ inbox' = inbox
              /\ timers' = timers)]_vars

\* C35: a sent or error reply is written only by the step that answers a
\* command, only to the connection the command came from and only while
\* that connection is open; a send that settles after its connection has
\* closed or the server was stopped writes nothing, ends no process and
\* just leaves the pending sends.
C35_ReplyOnlyToOpen ==
    [][/\ \A c \in Conns :
             Replies(inbox'[c]) # Replies(inbox[c])
                 => /\ step'.op \in {"message", "sent"}
                    /\ c = step'.conn
                    /\ ready[c] = "open"
       /\ (step'.op = "sent" /\ ready[step'.conn] # "open")
             => /\ inbox' = inbox
                /\ exitCode' = exitCode
                /\ Len(sending') = Len(sending) - 1]_vars

\* A send has settled after stop() closed the connection it came from.
C35_Witness ==
    /\ step.op = "sent"
    /\ ~wss
    /\ ready[step.conn] # "open"
    /\ Replies(inbox[step.conn]) = <<>>
    /\ exitCode = "none"

\* C36: accepting a controller writes nothing to it, and the status, qr and
\* message frames of a connection grow only in a step that raises events,
\* by exactly those events, while the connection is registered and open:
\* what was raised before it was accepted never reaches it.
C36_NoReplay ==
    [][/\ step'.op = "accept" => inbox' = inbox
       /\ \A c \in Conns :
             EventsIn(inbox'[c]) # EventsIn(inbox[c])
                 => /\ Raises
                    /\ c \in clients
                    /\ ready[c] = "open"
                    /\ EventsIn(inbox'[c]) = EventsIn(inbox[c]) \o NewEvents]_vars

\* A controller accepted after the session was established holds the
\* message raised since, and not the status raised before it came.
C36_Witness ==
    \E c \in Conns :
        /\ ready[c] = "open"
        /\ raised = <<Connected, inboundMessage(TextMsg)>>
        /\ inbox[c] = <<inboundMessage(TextMsg)>>

\* The envelope passes the filters of origin and address and has content.
Passing(e) == ~Own(e) /\ ~StatusBroadcast(e) /\ FirstMatch(e.message) # ""

\* C37: the handling of a notify batch raises one message event for each
\* envelope that passes the filters and has content, in the order of the
\* batch and with that envelope's address and content, and nothing for the
\* others, wherever in the batch they stand.
C37_OnePerPassing ==
    [][(step'.op = "messages" /\ step'.type = "notify")
        => LET kept == SelectSeq(step'.arg, Passing) IN
           /\ NewEvents = NewMessages
           /\ Len(NewMessages) = Len(kept)
           /\ \A i \in 1..Len(kept) :
                 /\ NewMessages[i].sender = kept[i].key.remoteJid
                 /\ NewMessages[i].content = FirstMatch(kept[i].message)
           /\ inbox'[1] = inbox[1] \o NewMessages]_vars

\* A batch of a skipped envelope followed by one that passes was handled:
\* the one event is that of the second envelope.
C37_Witness ==
    /\ step.op = "messages"
    /\ step.type = "notify"
    /\ step.arg = <<OwnMsg, VoiceMsg>>
    /\ raised = <<Connected, inboundMessage(VoiceMsg)>>
    /\ inbox[1] = raised

\* C38: the handling of a batch whose delivery type is not notify raises
\* no event and writes no frame, whatever its envelopes carry.
C38_NotifyOnly ==
    [][(step'.op = "messages" /\ step'.type # "notify")
        => raised' = raised /\ inbox' = inbox]_vars

\* A batch of type append was handled whose envelope, in a notify batch,
\* would have raised a message event.
C38_Witness ==
    /\ step.op = "messages"
    /\ step.type = "append"
    /\ Len(step.arg) = 1
    /\ Passing(step.arg[1])
    /\ raised = <<Connected>>
    /\ inbox[1] = <<Connected>>

\* C39: disconnect() leaves the client without a socket reference; from
\* then on only the making of a socket by connect() gives it one, and until
\* then every sendMessage throws 'Not connected' and reaches no socket, and
\* another disconnect() changes nothing.
C39_NotConnectedAfterDisconnect ==
    [][/\ step'.op = "disconnect" => sock' = 0
       /\ (sock = 0 /\ sock' # 0) => step'.op = "makeWASocket"
       /\ (sock = 0 /\ step'.op = "sendMessage")
             => /\ step'.type = "Not connected"
                /\ sending' = sending
                /\ delegated' = delegated
       /\ (sock = 0 /\ step'.op = "disconnect")
             => UNCHANGED <<sock, socks, raised, inbox, reconnecting, timers,
                            inflight, sending>>]_vars

\* disconnect() ended a socket that was open, connect() was not called
\* since, and a sendMessage has just failed.
C39_Witness ==
    /\ step.op = "sendMessage"
    /\ step.type = "Not connected"
    /\ deliberate
    /\ Len(socks) = 1
    /\ raised = <<Connected, Disconnected>>
    /\ inflight = <<>>

====
